---- MODULE Spec2Model ----
(***************************************************************************)
(* Model of src/bot.py: the Club 5 to 7 Telegram bot.                      *)
(*                                                                         *)
(* A Python string is a sequence of symbols.  A symbol is one character    *)
(* ("a", "b", ";", " ") or a block of characters that is never split       *)
(* ("http://", "https://", a run of 50/100/200 letters, a default text);   *)
(* SymLen gives the number of characters of a symbol, so len(), strip(),   *)
(* split(';', 3), " ".join() and startswith() are computed as Python does. *)
(* context.args is a sequence of words: non-empty strings without blanks.  *)
(***************************************************************************)
EXTENDS Integers, Sequences, FiniteSets, TLC

VARIABLES
    ADMIN_USER_ID,      \* module global, set once at import (bot.py 12-20)
    STORAGE_TYPE,       \* module global, set once at import (bot.py 27)
    dbConfigured,       \* psycopg2 imported and DATABASE_URL set (bot.py 33, 52-60)
    pc,                 \* "boot" before run_server has loaded the data, then "running"
    NEXT_MEETUP,        \* the four NEXT_MEETUP_* globals
    FILM_SUGGESTIONS,   \* global list
    THEME_SUGGESTIONS,  \* global list
    jsonFile,           \* bot_data.json
    dbMeetup,           \* table meetup_details
    dbFilms,            \* table film_suggestions (title UNIQUE)
    dbThemes,           \* table theme_suggestions (theme UNIQUE)
    last,               \* the last update handled and the reply sent for it
    update_queue,       \* application.update_queue: updates not yet dispatched
    http                \* the last POST /webhook request and its response

vars == <<ADMIN_USER_ID, STORAGE_TYPE, dbConfigured, pc, NEXT_MEETUP,
          FILM_SUGGESTIONS, THEME_SUGGESTIONS, jsonFile, dbMeetup, dbFilms,
          dbThemes, last, update_queue, http>>

----------------------------------------------------------------------------
(* Python strings *)

SymLen(c) ==
    CASE c = "http://" -> 7
      [] c = "https://" -> 8
      [] c = "L50" -> 50
      [] c = "L100" -> 100
      [] c = "L200" -> 200
      [] c = "Sunday, July 28" -> 15
      [] c = "5:00 PM" -> 7
      [] c = "The Coffee Shop" -> 15
      [] c = "maps.app.goo.gl/YourCoffeeShopLocation" -> 38
      [] OTHER -> 1

RECURSIVE PyLen(_)
PyLen(s) == IF s = <<>> THEN 0 ELSE SymLen(Head(s)) + PyLen(Tail(s))

RECURSIVE PyJoin(_)
PyJoin(args) ==
    IF args = <<>> THEN <<>>
    ELSE IF Len(args) = 1 THEN args[1]
    ELSE args[1] \o <<" ">> \o PyJoin(Tail(args))

RECURSIVE PyLStrip(_)
PyLStrip(s) == IF s # <<>> /\ Head(s) = " " THEN PyLStrip(Tail(s)) ELSE s

RECURSIVE PyRStrip(_)
PyRStrip(s) ==
    IF s # <<>> /\ s[Len(s)] = " " THEN PyRStrip(SubSeq(s, 1, Len(s) - 1)) ELSE s

PyStrip(s) == PyRStrip(PyLStrip(s))

RECURSIVE PySplit(_, _, _)
PySplit(s, sep, maxsplit) ==
    IF maxsplit = 0 \/ \A i \in 1..Len(s) : s[i] # sep THEN <<s>>
    ELSE LET i == CHOOSE k \in 1..Len(s) :
                      s[k] = sep /\ \A j \in 1..(k - 1) : s[j] # sep
         IN  <<SubSeq(s, 1, i - 1)>>
                 \o PySplit(SubSeq(s, i + 1, Len(s)), sep, maxsplit - 1)

PyStartsWith(s, prefix) == s # <<>> /\ Head(s) = prefix

PyIn(x, list) == \E i \in 1..Len(list) : list[i] = x

\* list.remove(x): deletes the first element equal to x
PyListRemove(list, x) ==
    LET i == CHOOSE k \in 1..Len(list) :
                 list[k] = x /\ \A j \in 1..(k - 1) : list[j] # x
    IN  SubSeq(list, 1, i - 1) \o SubSeq(list, i + 1, Len(list))

----------------------------------------------------------------------------
(* Configuration *)

AdminId == 1
OtherId == 2
UserIds == {AdminId, OtherId}

\* os.getenv("ADMIN_USER_ID"): unset, "", a text that int() rejects, a number
AdminEnvValues == {"unset", "empty", "nonint", "int"}

NoneValue == [kind |-> "none", val |-> 0]

\* lines 12-20: only a non-empty value is converted; "" stays the string ""
ParseAdminEnv(env) ==
    CASE env = "unset" -> NoneValue
      [] env = "empty" -> [kind |-> "str", val |-> 0]
      [] env = "nonint" -> NoneValue
      [] env = "int" -> [kind |-> "int", val |-> AdminId]

\* the comparison dropped: every sender passes the admin check
PyNotEqualAlwaysPasses(user_id, admin) == admin.kind # "int"

\* Python's  user_id != ADMIN_USER_ID  for an int user_id
PyNotEqual(user_id, admin) == admin.kind # "int" \/ admin.val # user_id

StorageTypes == {"json", "postgresql", "postgres"}

DEFAULT_MEETUP ==
    [date |-> <<"Sunday, July 28">>,
     time_of_day |-> <<"5:00 PM">>,
     location_display |-> <<"The Coffee Shop">>,
     location_url |-> <<"https://", "maps.app.goo.gl/YourCoffeeShopLocation">>]

----------------------------------------------------------------------------
(* The globals and the stores, as one value the persistence functions map *)

World ==
    [m |-> NEXT_MEETUP, f |-> FILM_SUGGESTIONS, t |-> THEME_SUGGESTIONS,
     file |-> jsonFile, dbm |-> dbMeetup, dbf |-> dbFilms, dbt |-> dbThemes]

Commit(w) ==
    /\ NEXT_MEETUP' = w.m
    /\ FILM_SUGGESTIONS' = w.f
    /\ THEME_SUGGESTIONS' = w.t
    /\ jsonFile' = w.file
    /\ dbMeetup' = w.dbm
    /\ dbFilms' = w.dbf
    /\ dbThemes' = w.dbt

JsonKeys == {"next_meetup_date", "next_meetup_time_of_day",
             "next_meetup_location_display", "next_meetup_location_url",
             "film_suggestions", "theme_suggestions"}

NoData == [k \in JsonKeys |-> <<>>]

\* the document save_data_json dumps
JsonDoc(w) ==
    [status |-> "ok", keys |-> JsonKeys,
     data |-> [k \in JsonKeys |->
                  CASE k = "next_meetup_date" -> w.m.date
                    [] k = "next_meetup_time_of_day" -> w.m.time_of_day
                    [] k = "next_meetup_location_display" -> w.m.location_display
                    [] k = "next_meetup_location_url" -> w.m.location_url
                    [] k = "film_suggestions" -> w.f
                    [] k = "theme_suggestions" -> w.t]]

MissingFile == [status |-> "missing", keys |-> {}, data |-> NoData]
CorruptFile == [status |-> "corrupt", keys |-> {}, data |-> NoData]

\* data.get(key, default)
DictGet(file, key, default) ==
    IF key \in file.keys THEN file.data[key] ELSE default

\* the two lists are not emptied
reset_meetup_only(w) == [w EXCEPT !.m = DEFAULT_MEETUP]

reset_to_defaults(w) ==
    [w EXCEPT !.m = DEFAULT_MEETUP, !.f = <<>>, !.t = <<>>]

\* open(JSON_DATA_FILE, "w") may fail (file untouched); json.dump may fail
\* after the file was truncated (file left unparsable)
WriteOutcomes == {"ok", "openfail", "dumpfail"}

save_data_json(w, wr) ==
    CASE wr = "ok" -> [w EXCEPT !.file = JsonDoc(w)]
      [] wr = "openfail" -> w
      [] wr = "dumpfail" -> [w EXCEPT !.file = CorruptFile]

load_data_json(w, wr) ==
    IF w.file.status = "ok"
    THEN [w EXCEPT
            !.m = [date |-> DictGet(w.file, "next_meetup_date", DEFAULT_MEETUP.date),
                   time_of_day |-> DictGet(w.file, "next_meetup_time_of_day",
                                           DEFAULT_MEETUP.time_of_day),
                   location_display |-> DictGet(w.file, "next_meetup_location_display",
                                                DEFAULT_MEETUP.location_display),
                   location_url |-> DictGet(w.file, "next_meetup_location_url",
                                            DEFAULT_MEETUP.location_url)],
            !.f = DictGet(w.file, "film_suggestions", <<>>),
            !.t = DictGet(w.file, "theme_suggestions", <<>>)]
    ELSE save_data_json(reset_to_defaults(w), wr)

----------------------------------------------------------------------------
(* Inputs: context.args of the commands *)

WA == <<"a">>
WB == <<"b">>
WSemi == <<";">>
WUrl == <<"http://", "a">>
WUrls == <<"https://", "a">>

\* /suggestfilm and /removefilm arguments
FilmArgs == {<<>>, <<WA>>, <<WA, WB>>, <<<<"L200">>, WA>>}

\* /suggesttheme and /removetheme arguments
ThemeArgs == {<<>>, <<WB>>, <<<<"L200">>, WB>>}

----------------------------------------------------------------------------
(* PostgreSQL backend.  A table with a UNIQUE text column is a set of       *)
(* texts; SELECT without ORDER BY returns the rows in an order the server  *)
(* chooses: one of RowOrders(table), which the outcome of the call names.  *)
(* Every database call opens its own connection, which may fail.           *)

RowOrders(S) ==
    {p \in [1..Cardinality(S) -> S] : \A i, j \in 1..Cardinality(S) :
                                          p[i] = p[j] => i = j}

NoRow == [has |-> FALSE, rec |-> DEFAULT_MEETUP]

\* get_db_connection(): None unless the driver and the URL are there and
\* the connection attempt `reachable` succeeds
get_db_connection(reachable) == dbConfigured /\ reachable

\* What the environment decides during one call of a persistence function:
\* the result of a file write, of a connection attempt, and the row orders.
Outcome(wr, reachable, forder, torder) ==
    [wr |-> wr, reachable |-> reachable, forder |-> forder, torder |-> torder]

NoOutcome == Outcome("ok", FALSE, <<>>, <<>>)

\* the outcomes of a load_all_data() call in world w
LoadOutcomes(w) ==
    CASE STORAGE_TYPE = "json" ->
            IF w.file.status = "ok" THEN {NoOutcome}
            ELSE {Outcome(x, FALSE, <<>>, <<>>) : x \in WriteOutcomes}
      [] STORAGE_TYPE = "postgresql" /\ dbConfigured ->
            {NoOutcome} \cup {Outcome("ok", TRUE, fo, to) :
                                 fo \in RowOrders(w.dbf), to \in RowOrders(w.dbt)}
      [] OTHER -> {NoOutcome}

\* the outcomes of a call that writes to the store
SaveOutcomes ==
    CASE STORAGE_TYPE = "json" -> {Outcome(x, FALSE, <<>>, <<>>) : x \in WriteOutcomes}
      [] STORAGE_TYPE = "postgresql" /\ dbConfigured ->
            {NoOutcome, Outcome("ok", TRUE, <<>>, <<>>)}
      [] OTHER -> {NoOutcome}

load_data_db(w, o) ==
    IF get_db_connection(o.reachable)
    THEN [w EXCEPT
            !.m = IF w.dbm.has THEN w.dbm.rec ELSE DEFAULT_MEETUP,
            !.dbm = IF w.dbm.has THEN w.dbm
                    ELSE [has |-> TRUE, rec |-> DEFAULT_MEETUP],
            !.f = o.forder,
            !.t = o.torder]
    ELSE reset_to_defaults(w)

save_meetup_to_db(w, o) ==
    IF get_db_connection(o.reachable)
    THEN [w EXCEPT !.dbm = [has |-> TRUE, rec |-> w.m]]
    ELSE w

add_film_suggestion_to_db(w, title, o) ==
    IF get_db_connection(o.reachable)
    THEN [w EXCEPT !.dbf = w.dbf \cup {title}]
    ELSE w

add_theme_suggestion_to_db(w, theme, o) ==
    IF get_db_connection(o.reachable)
    THEN [w EXCEPT !.dbt = w.dbt \cup {theme}]
    ELSE w

\* returns the new world and the boolean result
remove_film_from_db(w, title, o) ==
    IF get_db_connection(o.reachable)
    THEN [w |-> [w EXCEPT !.dbf = w.dbf \ {title}], removed |-> title \in w.dbf]
    ELSE [w |-> w, removed |-> FALSE]

remove_theme_from_db(w, theme, o) ==
    IF get_db_connection(o.reachable)
    THEN [w |-> [w EXCEPT !.dbt = w.dbt \ {theme}], removed |-> theme \in w.dbt]
    ELSE [w |-> w, removed |-> FALSE]

----------------------------------------------------------------------------
(* Backend dispatch *)

load_all_data(w, o) ==
    CASE STORAGE_TYPE = "json" -> load_data_json(w, o.wr)
      [] STORAGE_TYPE = "postgresql" -> load_data_db(w, o)
      [] OTHER -> reset_to_defaults(w)

save_all_data_for_meetup(w, o) ==
    CASE STORAGE_TYPE = "json" -> save_data_json(w, o.wr)
      [] STORAGE_TYPE = "postgresql" -> save_meetup_to_db(w, o)
      [] OTHER -> w

\* a write made from a list read before the other suggestions were stored
add_film_suggestion_from_stale_read(w, title, o1, o2) ==
    CASE STORAGE_TYPE = "json" ->
            save_data_json([w EXCEPT !.f = <<title>>], o1.wr)
      [] STORAGE_TYPE = "postgresql" ->
            load_all_data(IF get_db_connection(o1.reachable)
                          THEN [w EXCEPT !.dbf = {title}] ELSE w, o2)
      [] OTHER -> w

add_film_suggestion_and_save(w, title, o1, o2) ==
    CASE STORAGE_TYPE = "json" ->
            save_data_json([w EXCEPT !.f = Append(w.f, title)], o1.wr)
      [] STORAGE_TYPE = "postgresql" ->
            load_all_data(add_film_suggestion_to_db(w, title, o1), o2)
      [] OTHER -> w

add_theme_suggestion_and_save(w, theme, o1, o2) ==
    CASE STORAGE_TYPE = "json" ->
            save_data_json([w EXCEPT !.t = Append(w.t, theme)], o1.wr)
      [] STORAGE_TYPE = "postgresql" ->
            load_all_data(add_theme_suggestion_to_db(w, theme, o1), o2)
      [] OTHER -> w

remove_film_suggestion_and_save(w, title, o1, o2) ==
    CASE STORAGE_TYPE = "json" ->
            IF PyIn(title, w.f)
            THEN [w |-> save_data_json([w EXCEPT !.f = PyListRemove(w.f, title)], o1.wr),
                  removed |-> TRUE]
            ELSE [w |-> w, removed |-> FALSE]
      [] STORAGE_TYPE = "postgresql" ->
            LET r == remove_film_from_db(w, title, o1)
            IN  IF r.removed
                THEN [w |-> load_all_data(r.w, o2), removed |-> TRUE]
                ELSE r
      [] OTHER -> [w |-> w, removed |-> FALSE]

remove_theme_suggestion_and_save(w, theme, o1, o2) ==
    CASE STORAGE_TYPE = "json" ->
            IF PyIn(theme, w.t)
            THEN [w |-> save_data_json([w EXCEPT !.t = PyListRemove(w.t, theme)], o1.wr),
                  removed |-> TRUE]
            ELSE [w |-> w, removed |-> FALSE]
      [] STORAGE_TYPE = "postgresql" ->
            LET r == remove_theme_from_db(w, theme, o1)
            IN  IF r.removed
                THEN [w |-> load_all_data(r.w, o2), removed |-> TRUE]
                ELSE r
      [] OTHER -> [w |-> w, removed |-> FALSE]

----------------------------------------------------------------------------
(* Updates and replies.  An update is a command message (msg) with its     *)
(* sender and context.args, or an update without a message.  A reply is    *)
(* its kind and the values it interpolates.                                *)

NoMessageUpdate == [msg |-> FALSE, user |-> 0, args |-> <<>>]

\* the handlers without an admin check never read the sender: user is 0
Updates(users, argset) ==
    {NoMessageUpdate} \cup {[msg |-> TRUE, user |-> u, args |-> a] :
                               u \in users, a \in argset}

\* loaded: what the handler's first load_all_data() did ("no": not called);
\* saved: what became of the last write to the store the handler attempted
Handled(cmd, update, reply, payload, loaded, saved) ==
    last' = [cmd |-> cmd, msg |-> update.msg, user |-> update.user,
             args |-> update.args, reply |-> reply, payload |-> payload,
             loaded |-> loaded, saved |-> saved]

\* the branch a load_all_data() call takes in world w under outcome o
LoadResult(w, o) ==
    CASE STORAGE_TYPE = "json" -> IF w.file.status = "ok" THEN "ok" ELSE "reset"
      [] STORAGE_TYPE = "postgresql" ->
            IF get_db_connection(o.reachable) THEN "ok" ELSE "reset"
      [] OTHER -> "reset"

\* the result of a write to the store under outcome o
SaveResult(o) ==
    CASE STORAGE_TYPE = "json" -> IF o.wr = "ok" THEN "ok" ELSE "failed"
      [] STORAGE_TYPE = "postgresql" ->
            IF get_db_connection(o.reachable) THEN "ok" ELSE "failed"
      [] OTHER -> "skipped"

\* the write a load_all_data() call itself makes: the defaults written back
\* to the JSON file, the default row inserted into an empty meetup table
LoadSaveResult(w, o) ==
    CASE STORAGE_TYPE = "json" ->
            IF w.file.status = "ok" THEN "none" ELSE SaveResult(o)
      [] STORAGE_TYPE = "postgresql" ->
            IF get_db_connection(o.reachable) /\ ~w.dbm.has THEN "ok" ELSE "none"
      [] OTHER -> "none"

\* a return before any global or store is touched
Return(cmd, update, reply, payload) ==
    /\ Handled(cmd, update, reply, payload, "no", "none")
    /\ UNCHANGED <<NEXT_MEETUP, FILM_SUGGESTIONS, THEME_SUGGESTIONS, jsonFile,
                   dbMeetup, dbFilms, dbThemes>>

MeetupFields(m) == <<m.date, m.time_of_day, m.location_display, m.location_url>>

\* enumerate(list) rendered as "i+1. text"
Numbered(list) == [i \in 1..Len(list) |-> <<i, list[i]>>]

Config == <<ADMIN_USER_ID, STORAGE_TYPE, dbConfigured, pc>>

----------------------------------------------------------------------------
(* /setmeetup arguments *)

WAs == <<"a", ";">>
WBs == <<"b", ";">>

SetMeetupArgs ==
    { <<>>,                                              \* no argument
      <<WA, WSemi, WA>>,                                 \* three words
      <<WAs, WBs, WAs, WUrls>>,                          \* a; b; a; https://a
      <<WA, WSemi, WB, WSemi, WA, WSemi, WUrls>>,        \* a ; b ; a ; https://a
      << <<"a", ";", "b", ";", "a", ";", "https://", "a">> >>,  \* a;b;a;https://a
      <<WA, WA, WA, WA>>,                                \* no semicolon
      <<WAs, WAs, WAs, WA>>,                             \* URL without scheme
      << <<"a", ";", "a", ";", "a", ";", "a">> >>,       \* the same in one word
      <<WA, WSemi, WA, WSemi, WAs>>,                     \* empty URL
      <<WSemi, WAs, WAs, WUrl>>,                         \* empty date
      <<WSemi, WAs, WAs, WA>>,                           \* empty date and bad URL
      << <<"L50", "a", ";">>, WAs, WAs, WUrl>>,          \* date of 51 characters
      <<WAs, WSemi, WAs, WUrl>>,                         \* empty time
      <<WAs, <<"L50", "a", ";">>, WAs, WUrl>>,           \* time of 51 characters
      <<WAs, WAs, WSemi, WUrl>>,                         \* empty location
      <<WAs, WAs, <<"L100", "a", ";">>, WUrl>>,          \* location of 101 characters
      <<WAs, WAs, WAs, <<"http://", "a", ";", "b">> >>,  \* a fourth semicolon
      <<WAs, WAs, WAs, <<"http://", "L100">> >> }        \* URL of 107 characters

----------------------------------------------------------------------------
(* The checks of the handlers *)

\* "if not new_date_str or len(new_date_str) > 50"
InvalidDate(new_date_str) == new_date_str = <<>> \/ PyLen(new_date_str) > 50

InvalidTimeOfDay(new_time_of_day_str) ==
    new_time_of_day_str = <<>> \/ PyLen(new_time_of_day_str) > 50

InvalidLocationDisplay(new_location_display_str) ==
    new_location_display_str = <<>> \/ PyLen(new_location_display_str) > 100

InvalidLocationUrl(new_location_url_str) ==
    \/ new_location_url_str = <<>>
    \/ ~(PyStartsWith(new_location_url_str, "http://")
         \/ PyStartsWith(new_location_url_str, "https://"))

\* the length limit is one digit longer
TooLongOver2000(text) == PyLen(text) > 2000

\* "if len(movie_title) > 200", "if len(theme_suggestion) > 200"
TooLong(text) == PyLen(text) > 200

\* the list is not looked at
NotYetSuggestedAlways(text, suggestions) == TRUE

\* "if movie_title not in FILM_SUGGESTIONS", "if theme_suggestion not in
\* THEME_SUGGESTIONS" of the suggest handlers
NotYetSuggested(text, suggestions) == ~PyIn(text, suggestions)

----------------------------------------------------------------------------
(* Handlers *)

meetup_command(update) ==
    /\ pc = "running"
    /\ IF ~update.msg THEN Return("meetup", update, "no_reply", <<>>)
       ELSE \E o \in LoadOutcomes(World) :
            LET w == load_all_data(World, o)
            IN  /\ Commit(w)
                /\ Handled("meetup", update, "meetup", MeetupFields(w.m),
                           LoadResult(World, o), LoadSaveResult(World, o))
    /\ UNCHANGED Config

setmeetup_command(update) ==
    /\ pc = "running"
    /\ IF ~update.msg THEN Return("setmeetup", update, "no_reply", <<>>)
       ELSE IF ADMIN_USER_ID = NoneValue
       THEN Return("setmeetup", update, "disabled", <<>>)
       ELSE IF PyNotEqual(update.user, ADMIN_USER_ID)
       THEN Return("setmeetup", update, "not_authorized", <<>>)
       ELSE IF Len(update.args) < 4 THEN
            \E o \in LoadOutcomes(World) :
            LET w == load_all_data(World, o)
            IN  /\ Commit(w)
                /\ Handled("setmeetup", update, "usage", MeetupFields(w.m),
                           LoadResult(World, o), LoadSaveResult(World, o))
       ELSE
            LET full_input == PyJoin(update.args)
                parts == PySplit(full_input, ";", 3)
            IN  IF Len(parts) # 4 THEN Return("setmeetup", update, "format", <<>>)
                ELSE
                LET new_date_str == PyStrip(parts[1])
                    new_time_of_day_str == PyStrip(parts[2])
                    new_location_display_str == PyStrip(parts[3])
                    new_location_url_str == PyStrip(parts[4])
                IN  IF InvalidDate(new_date_str)
                    THEN Return("setmeetup", update, "bad_date", <<>>)
                    ELSE IF InvalidTimeOfDay(new_time_of_day_str)
                    THEN Return("setmeetup", update, "bad_time", <<>>)
                    ELSE IF InvalidLocationDisplay(new_location_display_str)
                    THEN Return("setmeetup", update, "bad_location", <<>>)
                    ELSE IF InvalidLocationUrl(new_location_url_str)
                    THEN Return("setmeetup", update, "bad_url", <<>>)
                    ELSE
                    \E o \in SaveOutcomes :
                    LET w1 == [World EXCEPT !.m =
                                  [date |-> new_date_str,
                                   time_of_day |-> new_time_of_day_str,
                                   location_display |-> new_location_display_str,
                                   location_url |-> new_location_url_str]]
                        w2 == save_all_data_for_meetup(w1, o)
                    IN  /\ Commit(w2)
                        /\ Handled("setmeetup", update, "updated",
                                   MeetupFields(w2.m), "no", SaveResult(o))
    /\ UNCHANGED Config

suggest_film(update) ==
    /\ pc = "running"
    /\ IF ~update.msg THEN Return("suggestfilm", update, "no_reply", <<>>)
       ELSE IF update.args = <<>> THEN Return("suggestfilm", update, "usage", <<>>)
       ELSE
            LET movie_title == PyStrip(PyJoin(update.args))
            IN  IF movie_title = <<>>
                THEN Return("suggestfilm", update, "empty", <<>>)
                ELSE IF TooLong(movie_title)
                THEN Return("suggestfilm", update, "too_long", <<>>)
                ELSE
                    \E o1 \in LoadOutcomes(World) :
                    LET w1 == load_all_data(World, o1)
                    IN  IF NotYetSuggested(movie_title, w1.f) THEN
                            \E o2 \in SaveOutcomes :
                            \E o3 \in LoadOutcomes(add_film_suggestion_to_db(w1, movie_title, o2)) :
                            /\ Commit(add_film_suggestion_and_save(w1, movie_title, o2, o3))
                            /\ Handled("suggestfilm", update, "added", <<movie_title>>,
                                       LoadResult(World, o1), SaveResult(o2))
                        ELSE
                            /\ Commit(w1)
                            /\ Handled("suggestfilm", update, "already", <<movie_title>>,
                                       LoadResult(World, o1), LoadSaveResult(World, o1))
    /\ UNCHANGED Config

suggest_theme(update) ==
    /\ pc = "running"
    /\ IF ~update.msg THEN Return("suggesttheme", update, "no_reply", <<>>)
       ELSE IF update.args = <<>> THEN Return("suggesttheme", update, "usage", <<>>)
       ELSE
            LET theme_suggestion == PyStrip(PyJoin(update.args))
            IN  IF theme_suggestion = <<>>
                THEN Return("suggesttheme", update, "empty", <<>>)
                ELSE IF TooLong(theme_suggestion)
                THEN Return("suggesttheme", update, "too_long", <<>>)
                ELSE
                    \E o1 \in LoadOutcomes(World) :
                    LET w1 == load_all_data(World, o1)
                    IN  IF NotYetSuggested(theme_suggestion, w1.t) THEN
                            \E o2 \in SaveOutcomes :
                            \E o3 \in LoadOutcomes(add_theme_suggestion_to_db(w1, theme_suggestion, o2)) :
                            /\ Commit(add_theme_suggestion_and_save(w1, theme_suggestion,
                                                                    o2, o3))
                            /\ Handled("suggesttheme", update, "added", <<theme_suggestion>>,
                                       LoadResult(World, o1), SaveResult(o2))
                        ELSE
                            /\ Commit(w1)
                            /\ Handled("suggesttheme", update, "already", <<theme_suggestion>>,
                                       LoadResult(World, o1), LoadSaveResult(World, o1))
    /\ UNCHANGED Config

show_film_suggestions(update) ==
    /\ pc = "running"
    /\ IF ~update.msg THEN Return("suggestionsfilm", update, "no_reply", <<>>)
       ELSE \E o \in LoadOutcomes(World) :
            LET w == load_all_data(World, o)
            IN  /\ Commit(w)
                /\ IF w.f = <<>>
                   THEN Handled("suggestionsfilm", update, "none", <<>>,
                                LoadResult(World, o), LoadSaveResult(World, o))
                   ELSE Handled("suggestionsfilm", update, "list", Numbered(w.f),
                                LoadResult(World, o), LoadSaveResult(World, o))
    /\ UNCHANGED Config

show_theme_suggestions(update) ==
    /\ pc = "running"
    /\ IF ~update.msg THEN Return("suggestionstheme", update, "no_reply", <<>>)
       ELSE \E o \in LoadOutcomes(World) :
            LET w == load_all_data(World, o)
            IN  /\ Commit(w)
                /\ IF w.t = <<>>
                   THEN Handled("suggestionstheme", update, "none", <<>>,
                                LoadResult(World, o), LoadSaveResult(World, o))
                   ELSE Handled("suggestionstheme", update, "list", Numbered(w.t),
                                LoadResult(World, o), LoadSaveResult(World, o))
    /\ UNCHANGED Config

remove_film(update) ==
    /\ pc = "running"
    /\ IF ~update.msg THEN Return("removefilm", update, "no_reply", <<>>)
       ELSE IF ADMIN_USER_ID = NoneValue
       THEN Return("removefilm", update, "disabled", <<>>)
       ELSE IF PyNotEqual(update.user, ADMIN_USER_ID)
       THEN Return("removefilm", update, "not_authorized", <<>>)
       ELSE IF update.args = <<>> THEN Return("removefilm", update, "usage", <<>>)
       ELSE
            \E o1 \in LoadOutcomes(World) :
            LET movie_title == PyStrip(PyJoin(update.args))
                w1 == load_all_data(World, o1)
            IN  IF ~PyIn(movie_title, w1.f) THEN
                    /\ Commit(w1)
                    /\ Handled("removefilm", update, "not_in_list", <<movie_title>>,
                               LoadResult(World, o1), LoadSaveResult(World, o1))
                ELSE
                    \E o2 \in SaveOutcomes :
                    \E o3 \in LoadOutcomes(remove_film_from_db(w1, movie_title, o2).w) :
                    LET r == remove_film_suggestion_and_save(w1, movie_title, o2, o3)
                    IN  /\ Commit(r.w)
                        /\ Handled("removefilm", update,
                                   IF r.removed THEN "removed" ELSE "failed",
                                   <<movie_title>>, LoadResult(World, o1), SaveResult(o2))
    /\ UNCHANGED Config

remove_theme(update) ==
    /\ pc = "running"
    /\ IF ~update.msg THEN Return("removetheme", update, "no_reply", <<>>)
       ELSE IF ADMIN_USER_ID = NoneValue
       THEN Return("removetheme", update, "disabled", <<>>)
       ELSE IF PyNotEqual(update.user, ADMIN_USER_ID)
       THEN Return("removetheme", update, "not_authorized", <<>>)
       ELSE IF update.args = <<>> THEN Return("removetheme", update, "usage", <<>>)
       ELSE
            \E o1 \in LoadOutcomes(World) :
            LET theme_suggestion == PyStrip(PyJoin(update.args))
                w1 == load_all_data(World, o1)
            IN  IF ~PyIn(theme_suggestion, w1.t) THEN
                    /\ Commit(w1)
                    /\ Handled("removetheme", update, "not_in_list",
                               <<theme_suggestion>>,
                               LoadResult(World, o1), LoadSaveResult(World, o1))
                ELSE
                    \E o2 \in SaveOutcomes :
                    \E o3 \in LoadOutcomes(remove_theme_from_db(w1, theme_suggestion, o2).w) :
                    LET r == remove_theme_suggestion_and_save(w1, theme_suggestion, o2, o3)
                    IN  /\ Commit(r.w)
                        /\ Handled("removetheme", update,
                                   IF r.removed THEN "removed" ELSE "failed",
                                   <<theme_suggestion>>, LoadResult(World, o1), SaveResult(o2))
    /\ UNCHANGED Config

\* lines 709-722: the data is loaded once before updates are served
run_server ==
    /\ pc = "boot"
    /\ pc' = "running"
    /\ IF STORAGE_TYPE = "postgresql" THEN
            IF dbConfigured
            THEN \E o \in LoadOutcomes(World) : Commit(load_all_data(World, o))
            ELSE Commit(reset_to_defaults(World))
       ELSE IF STORAGE_TYPE = "json"
       THEN \E o \in LoadOutcomes(World) : Commit(load_all_data(World, o))
       ELSE Commit(reset_to_defaults(World))
    /\ UNCHANGED <<ADMIN_USER_ID, STORAGE_TYPE, dbConfigured, last>>

----------------------------------------------------------------------------
(* What a previous run of the bot can have left in the store *)

PriorMeetup ==
    [date |-> <<"a">>, time_of_day |-> <<"b">>, location_display |-> <<"a">>,
     location_url |-> <<"https://", "a">>]

PriorWorld ==
    [m |-> PriorMeetup, f |-> <<WA>>, t |-> <<>>, file |-> MissingFile,
     dbm |-> NoRow, dbf |-> {}, dbt |-> {}]

EmptyDoc == [status |-> "ok", keys |-> {}, data |-> NoData]

InitFiles == {MissingFile, CorruptFile, EmptyDoc, JsonDoc(PriorWorld)}

\* no request yet
NoExchange == [request |-> "none", status |-> 0, body |-> "none"]

NoUpdate ==
    [cmd |-> "none", msg |-> FALSE, user |-> 0, args |-> <<>>, reply |-> "no_reply",
     payload |-> <<>>, loaded |-> "no", saved |-> "none"]

Init ==
    /\ ADMIN_USER_ID \in {ParseAdminEnv(env) : env \in AdminEnvValues}
    /\ STORAGE_TYPE \in StorageTypes
    /\ dbConfigured \in (IF STORAGE_TYPE = "postgresql" THEN BOOLEAN ELSE {FALSE})
    /\ pc = "boot"
    /\ NEXT_MEETUP = DEFAULT_MEETUP
    /\ FILM_SUGGESTIONS = <<>>
    /\ THEME_SUGGESTIONS = <<>>
    /\ jsonFile \in (IF STORAGE_TYPE = "json" THEN InitFiles ELSE {MissingFile})
    /\ \E populated \in (IF dbConfigured THEN BOOLEAN ELSE {FALSE}) :
          /\ dbMeetup = IF populated THEN [has |-> TRUE, rec |-> PriorMeetup] ELSE NoRow
          /\ dbFilms = IF populated THEN {WA} ELSE {}
          /\ dbThemes = {}
    /\ last = NoUpdate
    /\ update_queue = <<>>
    /\ http = NoExchange

\* the updates each handler is run on
PlainUpdates == Updates({0}, {<<>>})
SetMeetupUpdates ==
    Updates({AdminId}, SetMeetupArgs)
        \cup Updates({OtherId}, {<<>>, <<WAs, WBs, WAs, WUrls>>, <<WAs, WAs, WAs, WA>>})
SuggestFilmUpdates == Updates({0}, FilmArgs)
SuggestThemeUpdates == Updates({0}, ThemeArgs)
RemoveFilmUpdates == Updates(UserIds, FilmArgs)
RemoveThemeUpdates == Updates(UserIds, ThemeArgs)

\* The handlers, each run on any update it can be given: the webhook and
\* the queue are left out, the dispatcher hands over one update at a time.
Next ==
    /\ \/ run_server
       \/ \E update \in PlainUpdates : meetup_command(update)
       \/ \E update \in SetMeetupUpdates : setmeetup_command(update)
       \/ \E update \in SuggestFilmUpdates : suggest_film(update)
       \/ \E update \in SuggestThemeUpdates : suggest_theme(update)
       \/ \E update \in PlainUpdates : show_film_suggestions(update)
       \/ \E update \in PlainUpdates : show_theme_suggestions(update)
       \/ \E update \in RemoveFilmUpdates : remove_film(update)
       \/ \E update \in RemoveThemeUpdates : remove_theme(update)
    /\ UNCHANGED <<update_queue, http>>

Spec == Init /\ [][Next]_vars

----------------------------------------------------------------------------
(* The webhook and the dispatcher.  POST /webhook decodes the body into an *)
(* update and puts it on application.update_queue; the application, built  *)
(* without concurrent_updates, takes the updates from the queue one at a   *)
(* time and awaits the handler of each before it takes the next.  A        *)
(* handler has no await between its load_all_data() and its save: the      *)
(* loads and saves are blocking calls.                                     *)

\* the queue is not bounded in the code; the model stops accepting here
MaxQueue == 2

Command(cmd, user, args) == [cmd |-> cmd, msg |-> TRUE, user |-> user, args |-> args]

\* the updates the requests carry
QueueUpdates ==
    { Command("suggestfilm", 0, <<WA, WB>>),
      Command("suggestfilm", 0, <<WA>>),
      Command("removefilm", AdminId, <<WA, WB>>),
      Command("setmeetup", AdminId, <<WAs, WBs, WAs, WUrls>>),
      Command("suggestionsfilm", 0, <<>>) }

\* A request body: not a JSON object (FastAPI cannot bind it to the dict
\* parameter), an object that Update.de_json raises on, or an update.
RequestBody(kind, update) == [kind |-> kind, update |-> update]

Requests ==
    {RequestBody("not_object", NoMessageUpdate), RequestBody("not_update", NoMessageUpdate)}
        \cup {RequestBody("update", u) : u \in QueueUpdates}

Exchange(request, status, body) ==
    [request |-> request, status |-> status, body |-> body]

\* without the try/except: the exception of de_json reaches the framework
telegram_webhook_raising(update_dict) ==
    IF update_dict.kind = "update"
    THEN /\ Len(update_queue) < MaxQueue
         /\ update_queue' = Append(update_queue, update_dict.update)
         /\ http' = Exchange(update_dict.kind, 200, "ok")
    ELSE /\ update_queue' = update_queue
         /\ http' = Exchange(update_dict.kind, 500, "error")

\* lines 678-685: try de_json and put; except Exception: print; return ok
telegram_webhook(update_dict) ==
    IF update_dict.kind = "update"
    THEN /\ Len(update_queue) < MaxQueue
         /\ update_queue' = Append(update_queue, update_dict.update)
         /\ http' = Exchange(update_dict.kind, 200, "ok")
    ELSE /\ update_queue' = update_queue
         /\ http' = Exchange(update_dict.kind, 200, "ok")

\* lines 677-678: the route; a body that is not a JSON object is answered
\* by the framework with 422 and the function is not called
post_webhook(request) ==
    /\ pc = "running"
    /\ IF request.kind = "not_object"
       THEN /\ http' = Exchange(request.kind, 422, "validation_error")
            /\ update_queue' = update_queue
       ELSE telegram_webhook(request)
    /\ UNCHANGED <<ADMIN_USER_ID, STORAGE_TYPE, dbConfigured, pc, NEXT_MEETUP,
                   FILM_SUGGESTIONS, THEME_SUGGESTIONS, jsonFile, dbMeetup,
                   dbFilms, dbThemes, last>>

\* the application takes the next update and awaits its handler
process_update ==
    /\ update_queue # <<>>
    /\ LET update == Head(update_queue)
       IN  CASE update.cmd = "meetup" -> meetup_command(update)
             [] update.cmd = "setmeetup" -> setmeetup_command(update)
             [] update.cmd = "suggestfilm" -> suggest_film(update)
             [] update.cmd = "suggestionsfilm" -> show_film_suggestions(update)
             [] update.cmd = "suggesttheme" -> suggest_theme(update)
             [] update.cmd = "suggestionstheme" -> show_theme_suggestions(update)
             [] update.cmd = "removefilm" -> remove_film(update)
             [] update.cmd = "removetheme" -> remove_theme(update)
    /\ update_queue' = Tail(update_queue)
    /\ http' = http

\* the bot with an admin and one of the two backends
QueueInit ==
    /\ Init
    /\ ADMIN_USER_ID.kind = "int"
    /\ STORAGE_TYPE = "json" \/ (STORAGE_TYPE = "postgresql" /\ dbConfigured)

QueueNext ==
    \/ run_server /\ UNCHANGED <<update_queue, http>>
    \/ \E request \in Requests : post_webhook(request)
    \/ process_update

QueueSpec == QueueInit /\ [][QueueNext]_vars

----------------------------------------------------------------------------
(* Vocabulary of the properties *)

Globals == <<NEXT_MEETUP, FILM_SUGGESTIONS, THEME_SUGGESTIONS>>
Store == <<jsonFile, dbMeetup, dbFilms, dbThemes>>

AdminConfigured == ADMIN_USER_ID.kind = "int"

\* l is a command message sent by the configured admin
FromAdmin(l) == l.msg /\ AdminConfigured /\ l.user = ADMIN_USER_ID.val

\* l is a command message sent by somebody other than the configured admin
FromNonAdmin(l) == l.msg /\ AdminConfigured /\ l.user # ADMIN_USER_ID.val

AdminCommands == {"setmeetup", "removefilm", "removetheme"}

\* the argument text cut at every semicolon, each field trimmed
FieldsOf(args) ==
    LET text == PyJoin(args)
        parts == PySplit(text, ";", Len(text))
    IN  [i \in 1..Len(parts) |-> PyStrip(parts[i])]

HasScheme(url) == PyStartsWith(url, "http://") \/ PyStartsWith(url, "https://")

\* four semicolon-delimited fields that are valid after trimming
ValidFourFields(args) ==
    LET f == FieldsOf(args)
    IN  /\ Len(f) = 4
        /\ f[1] # <<>> /\ PyLen(f[1]) <= 50
        /\ f[2] # <<>> /\ PyLen(f[2]) <= 50
        /\ f[3] # <<>> /\ PyLen(f[3]) <= 100
        /\ HasScheme(f[4])

----------------------------------------------------------------------------
(* C1: after a /setmeetup of the admin with four valid fields, the reply   *)
(* confirms exactly the four trimmed fields, and a /meetup that follows    *)
(* shows exactly these fields.                                             *)
C1_SetMeetupReadBack ==
    [][/\ (last'.cmd = "setmeetup" /\ FromAdmin(last') /\ ValidFourFields(last'.args))
              => /\ last'.reply = "updated"
                 /\ last'.payload = FieldsOf(last'.args)
       /\ (/\ last.cmd = "setmeetup" /\ FromAdmin(last) /\ ValidFourFields(last.args)
           /\ last'.cmd = "meetup" /\ last'.msg)
              => last'.payload = FieldsOf(last.args)]_vars

(* C2: an admin command sent by somebody other than the configured admin   *)
(* is answered with the not-authorized reply, whatever its arguments, and  *)
(* the handler neither loads nor changes the globals and the store.        *)
C2_NonAdminNoEffect ==
    [][(last'.cmd \in AdminCommands /\ FromNonAdmin(last'))
          => /\ last'.reply = "not_authorized"
             /\ last'.loaded = "no"
             /\ last'.saved = "none"
             /\ UNCHANGED <<Globals, Store>>]_vars

\* a non-admin asked to remove a film that is in the list, with valid
\* arguments, and the film is still there
C2_Witness ==
    /\ last.cmd = "removefilm" /\ FromNonAdmin(last)
    /\ last.reply = "not_authorized"
    /\ last.args # <<>>
    /\ PyIn(PyStrip(PyJoin(last.args)), FILM_SUGGESTIONS)

SuggestCommands == {"suggestfilm", "suggesttheme"}
RemoveCommands == {"removefilm", "removetheme"}

\* the number of entries of a list that equal x
Count(x, list) == Cardinality({i \in 1..Len(list) : list[i] = x})

NoDuplicates(list) == \A i, j \in 1..Len(list) : list[i] = list[j] => i = j

\* the list without every entry equal to x, the other entries in their order
Without(list, x) == LET other(y) == y # x IN SelectSeq(list, other)

\* the text a suggest or remove command is about
TextOf(args) == PyStrip(PyJoin(args))

DefaultGlobals == <<DEFAULT_MEETUP, <<>>, <<>>>>

(* C3: a text suggested twice in a row is in its list exactly once after   *)
(* the second suggestion, and the second reply says it is already there.   *)
C3_SuggestTwiceOneEntry ==
    [][(/\ last.cmd \in SuggestCommands /\ last.reply \in {"added", "already"}
        /\ last'.cmd = last.cmd /\ last'.msg /\ last'.args = last.args)
          => /\ last'.reply = "already"
             /\ Count(TextOf(last'.args),
                      IF last'.cmd = "suggestfilm" THEN FILM_SUGGESTIONS'
                                                   ELSE THEME_SUGGESTIONS') = 1]_vars

(* C4: /removefilm or /removetheme of the admin with text t: when t is     *)
(* not in the list the reply is "not in the list" and the list stays as it *)
(* is; when t is in the list the list loses exactly this entry and the     *)
(* other entries keep their order.                                         *)
C4_RemoveExact ==
    [][(last'.cmd \in RemoveCommands /\ FromAdmin(last') /\ last'.args # <<>>)
          => LET t == TextOf(last'.args)
                 before == IF last'.cmd = "removefilm" THEN FILM_SUGGESTIONS
                                                       ELSE THEME_SUGGESTIONS
                 after == IF last'.cmd = "removefilm" THEN FILM_SUGGESTIONS'
                                                      ELSE THEME_SUGGESTIONS'
             IN  IF ~PyIn(t, before)
                 THEN last'.reply = "not_in_list" /\ after = before
                 ELSE /\ Len(after) = Len(before) - 1
                      /\ after = Without(before, t)]_vars

\* the fields as the handler cuts them: at the first three semicolons
FourParts(args) ==
    LET parts == PySplit(PyJoin(args), ";", 3)
    IN  [i \in 1..Len(parts) |-> PyStrip(parts[i])]

\* /setmeetup arguments that fail a validation: too few arguments, fewer
\* than four parts, an empty or over-long field, a URL without scheme
SetMeetupRejected(args) ==
    \/ Len(args) < 4
    \/ LET f == FourParts(args)
       IN  \/ Len(f) # 4
           \/ f[1] = <<>> \/ PyLen(f[1]) > 50
           \/ f[2] = <<>> \/ PyLen(f[2]) > 50
           \/ f[3] = <<>> \/ PyLen(f[3]) > 100
           \/ ~HasScheme(f[4])

SuggestRejected(args) == args = <<>> \/ TextOf(args) = <<>> \/ PyLen(TextOf(args)) > 200

\* l is a command message that fails a validation of its handler
ValidationFailure(l) ==
    \/ l.cmd = "setmeetup" /\ FromAdmin(l) /\ SetMeetupRejected(l.args)
    \/ l.cmd \in SuggestCommands /\ l.msg /\ SuggestRejected(l.args)
    \/ l.cmd \in RemoveCommands /\ FromAdmin(l) /\ l.args = <<>>

ErrorReplies ==
    {"usage", "format", "bad_date", "bad_time", "bad_location", "bad_url",
     "empty", "too_long"}

(* C5 as stated: every validation failure returns an error reply and       *)
(* leaves the globals and the store as they were.                          *)
C5_ValidationFailureNoChange ==
    [][ValidationFailure(last')
          => last'.reply \in ErrorReplies /\ UNCHANGED <<Globals, Store>>]_vars

(* C5 as amended: every validation failure returns an error reply; all of  *)
(* them leave the globals and the store as they were, except /setmeetup    *)
(* with fewer than four arguments, which reloads the data to show it.      *)
C5_ValidationFailureNoChangeButUsage ==
    [][ValidationFailure(last')
          => /\ last'.reply \in ErrorReplies
             /\ IF last'.cmd = "setmeetup" /\ Len(last'.args) < 4
                THEN last'.reply = "usage" /\ last'.loaded # "no"
                ELSE /\ last'.loaded = "no" /\ last'.saved = "none"
                     /\ UNCHANGED <<Globals, Store>>]_vars

\* an over-long title was refused while the list and the record hold data
C5_Witness ==
    /\ last.cmd = "suggestfilm" /\ last.msg /\ last.reply = "too_long"
    /\ PyLen(TextOf(last.args)) > 200
    /\ FILM_SUGGESTIONS # <<>>
    /\ NEXT_MEETUP # DEFAULT_MEETUP

\* four fields, the first three valid, the fourth without a scheme
OnlyUrlInvalid(args) ==
    LET f == FieldsOf(args)
    IN  /\ Len(f) = 4
        /\ f[1] # <<>> /\ PyLen(f[1]) <= 50
        /\ f[2] # <<>> /\ PyLen(f[2]) <= 50
        /\ f[3] # <<>> /\ PyLen(f[3]) <= 100
        /\ ~HasScheme(f[4])

(* C6: a /setmeetup of the admin whose fourth field does not start with    *)
(* http:// or https://, the other three fields being valid, gets the       *)
(* invalid-URL reply and leaves the meetup record, in memory and in the    *)
(* store, as it was.                                                       *)
C6_BadUrlRejected ==
    [][(last'.cmd = "setmeetup" /\ FromAdmin(last') /\ OnlyUrlInvalid(last'.args))
          => /\ last'.reply = "bad_url"
             /\ UNCHANGED <<NEXT_MEETUP, Store>>]_vars

(* C7: no suggestion list ever holds the same text twice.                  *)
C7_NoDuplicates ==
    NoDuplicates(FILM_SUGGESTIONS) /\ NoDuplicates(THEME_SUGGESTIONS)

\* a text already in a list of two was suggested again
C7_Witness ==
    /\ last.cmd = "suggestfilm" /\ last.reply = "already"
    /\ Len(FILM_SUGGESTIONS) = 2
    /\ Count(TextOf(last.args), FILM_SUGGESTIONS) = 1

(* C8: without a configured admin identifier every admin command gets the  *)
(* "disabled" reply and changes nothing; the identifier never changes.     *)
C8_DisabledWithoutAdmin ==
    [][/\ ADMIN_USER_ID' = ADMIN_USER_ID
       /\ (~AdminConfigured /\ last'.cmd \in AdminCommands /\ last'.msg)
             => /\ last'.reply = "disabled"
                /\ UNCHANGED <<Globals, Store>>]_vars

DefaultWorld == reset_to_defaults(World)

\* the commands that load and change nothing afterwards
LoadOnlyCommands == {"meetup", "suggestionsfilm", "suggestionstheme"}

StoreHoldsDefaults ==
    CASE STORAGE_TYPE = "json" -> jsonFile = JsonDoc(DefaultWorld)
      [] STORAGE_TYPE = "postgresql" ->
            /\ dbMeetup = [has |-> TRUE, rec |-> DEFAULT_MEETUP]
            /\ dbFilms = {} /\ dbThemes = {}
      [] OTHER -> TRUE

C10_OnlyAdminRemoves ==
    [][/\ \A x \in {FILM_SUGGESTIONS[i] : i \in 1..Len(FILM_SUGGESTIONS)} :
             ~PyIn(x, FILM_SUGGESTIONS')
                => /\ last'.cmd = "removefilm" /\ FromAdmin(last')
                   /\ last'.reply = "removed" /\ last'.payload = <<x>>
       /\ \A x \in {THEME_SUGGESTIONS[i] : i \in 1..Len(THEME_SUGGESTIONS)} :
             ~PyIn(x, THEME_SUGGESTIONS')
                => /\ last'.cmd = "removetheme" /\ FromAdmin(last')
                   /\ last'.reply = "removed" /\ last'.payload = <<x>>]_vars

ListCommands == {"suggestionsfilm", "suggestionstheme"}

\* the last line of a numbered listing is the text x
ListedLast(payload, x) ==
    payload # <<>> /\ payload[Len(payload)] = <<Len(payload), x>>

(* C11: /suggestionsfilm and /suggestionstheme reload the store and reply  *)
(* with the entries numbered from 1, or with the "none yet" message when   *)
(* the list is empty; the entries are in the order in which they were      *)
(* suggested, so a text that was just added and stored is the last line.   *)
C11_ListedInOrderSuggested ==
    [][/\ (last'.cmd = "suggestionsfilm" /\ last'.msg)
             => /\ last'.loaded # "no"
                /\ IF FILM_SUGGESTIONS' = <<>> THEN last'.reply = "none"
                   ELSE /\ last'.reply = "list"
                        /\ last'.payload = Numbered(FILM_SUGGESTIONS')
       /\ (last'.cmd = "suggestionstheme" /\ last'.msg)
             => /\ last'.loaded # "no"
                /\ IF THEME_SUGGESTIONS' = <<>> THEN last'.reply = "none"
                   ELSE /\ last'.reply = "list"
                        /\ last'.payload = Numbered(THEME_SUGGESTIONS')
       /\ (/\ last.cmd = "suggestfilm" /\ last.reply = "added" /\ last.saved = "ok"
           /\ last'.cmd = "suggestionsfilm" /\ last'.msg /\ last'.loaded = "ok")
             => ListedLast(last'.payload, TextOf(last.args))
       /\ (/\ last.cmd = "suggesttheme" /\ last.reply = "added" /\ last.saved = "ok"
           /\ last'.cmd = "suggestionstheme" /\ last'.msg /\ last'.loaded = "ok")
             => ListedLast(last'.payload, TextOf(last.args))]_vars

\* the globals hold what the tables hold
MemoryHoldsTables ==
    /\ dbMeetup = [has |-> TRUE, rec |-> NEXT_MEETUP]
    /\ NoDuplicates(FILM_SUGGESTIONS)
    /\ {FILM_SUGGESTIONS[i] : i \in 1..Len(FILM_SUGGESTIONS)} = dbFilms
    /\ NoDuplicates(THEME_SUGGESTIONS)
    /\ {THEME_SUGGESTIONS[i] : i \in 1..Len(THEME_SUGGESTIONS)} = dbThemes

\* the same contents in a JSON file
JsonTwin == [World EXCEPT !.file = JsonDoc(World)]

FilmTexts == {TextOf(args) : args \in FilmArgs \ {<<>>}}

(* C12: from the same store contents the two backends behave the same:     *)
(* whenever the tables hold what the globals hold, a load from the         *)
(* database reads back the record and the lists that a load from a JSON    *)
(* file with these contents reads back, a suggestion is a duplicate for    *)
(* the one when it is for the other, and a removal returns the same        *)
(* boolean.                                                                *)
C12_BackendsAgree ==
    (STORAGE_TYPE = "postgresql" /\ pc = "running" /\ MemoryHoldsTables)
       => \A o \in LoadOutcomes(World) :
             get_db_connection(o.reachable)
                => LET j == load_data_json(JsonTwin, "ok")
                       d == load_data_db(World, o)
                   IN  /\ j.m = d.m
                       /\ j.f = d.f
                       /\ j.t = d.t
                       /\ \A x \in FilmTexts :
                             /\ NotYetSuggested(x, j.f) = NotYetSuggested(x, d.f)
                             /\ PyIn(x, j.f) = remove_film_from_db(d, x, o).removed

(* C14: the four fields of the meetup record are never empty, the date and *)
(* the time are at most 50 characters long, the location name and the URL  *)
(* at most 100, and the URL starts with http:// or https://.               *)
C14_MeetupFieldsValid ==
    /\ NEXT_MEETUP.date # <<>> /\ PyLen(NEXT_MEETUP.date) <= 50
    /\ NEXT_MEETUP.time_of_day # <<>> /\ PyLen(NEXT_MEETUP.time_of_day) <= 50
    /\ NEXT_MEETUP.location_display # <<>>
    /\ PyLen(NEXT_MEETUP.location_display) <= 100
    /\ NEXT_MEETUP.location_url # <<>> /\ PyLen(NEXT_MEETUP.location_url) <= 100
    /\ HasScheme(NEXT_MEETUP.location_url)

ValidationReplies == {"bad_date", "bad_time", "bad_location", "bad_url", "updated"}

(* C15: a /setmeetup of the admin with an argument text that does not have *)
(* exactly four semicolon-delimited parts gets the format-error reply and  *)
(* changes nothing; a text with exactly four parts goes on to validation   *)
(* of the trimmed parts, however many words it has.                        *)
C15_ExactlyFourParts ==
    [][(last'.cmd = "setmeetup" /\ FromAdmin(last') /\ last'.args # <<>>)
          => IF Len(FieldsOf(last'.args)) # 4
             THEN last'.reply = "format" /\ UNCHANGED <<Globals, Store>>
             ELSE /\ last'.reply \in ValidationReplies
                  /\ last'.reply = "updated"
                        => last'.payload = FieldsOf(last'.args)]_vars

(* C17: when /suggestfilm or /suggesttheme replies that the text has been  *)
(* added, the text is in the list, and a /suggestionsfilm or               *)
(* /suggestionstheme that follows lists it, in every configuration.        *)
C17_AddedIsListed ==
    [][/\ (last'.cmd = "suggestfilm" /\ last'.reply = "added")
             => PyIn(TextOf(last'.args), FILM_SUGGESTIONS')
       /\ (last'.cmd = "suggesttheme" /\ last'.reply = "added")
             => PyIn(TextOf(last'.args), THEME_SUGGESTIONS')
       /\ (/\ last.cmd = "suggestfilm" /\ last.reply = "added"
           /\ last'.cmd = "suggestionsfilm" /\ last'.msg)
             => /\ last'.reply = "list"
                /\ \E i \in 1..Len(last'.payload) :
                      last'.payload[i] = <<i, TextOf(last.args)>>
       /\ (/\ last.cmd = "suggesttheme" /\ last.reply = "added"
           /\ last'.cmd = "suggestionstheme" /\ last'.msg)
             => /\ last'.reply = "list"
                /\ \E i \in 1..Len(last'.payload) :
                      last'.payload[i] = <<i, TextOf(last.args)>>]_vars

\* a request has been answered
Answered == http # NoExchange

(* C13 as stated: every POST /webhook request is answered with status 200  *)
(* and the body {"status": "ok"}.                                          *)
C13_EveryPostAnsweredOk ==
    Answered => (http.status = 200 /\ http.body = "ok")

(* C13: a POST /webhook whose body is a JSON object is answered with       *)
(* status 200 and the body {"status": "ok"} whether or not the body        *)
(* decodes into an update: a body that does not decode leaves the queue    *)
(* and the bot's state as they were, a body that does is put on the queue. *)
(* A body that is not a JSON object does not reach the function: it is     *)
(* answered with 422 and nothing is queued.                                *)
C13_ObjectBodyAnsweredOk ==
    [][(http' # http)
          => /\ UNCHANGED <<Globals, Store, last>>
             /\ CASE http'.request = "not_object" ->
                        /\ http'.status = 422
                        /\ update_queue' = update_queue
                  [] http'.request = "not_update" ->
                        /\ http'.status = 200 /\ http'.body = "ok"
                        /\ update_queue' = update_queue
                  [] http'.request = "update" ->
                        /\ http'.status = 200 /\ http'.body = "ok"
                        /\ Len(update_queue') = Len(update_queue) + 1
                        /\ SubSeq(update_queue', 1, Len(update_queue)) = update_queue]_vars

\* an object that did not decode was answered, with updates waiting
C13_Witness ==
    /\ http = Exchange("not_update", 200, "ok")
    /\ update_queue # <<>>

\* the films in the store
StoredFilms ==
    IF STORAGE_TYPE = "json"
    THEN IF jsonFile.status = "ok"
         THEN LET f == DictGet(jsonFile, "film_suggestions", <<>>)
              IN  {f[i] : i \in 1..Len(f)}
         ELSE {}
    ELSE dbFilms

\* the meetup record in the store, as the four fields
StoredMeetup ==
    IF STORAGE_TYPE = "json"
    THEN <<DictGet(jsonFile, "next_meetup_date", <<>>),
           DictGet(jsonFile, "next_meetup_time_of_day", <<>>),
           DictGet(jsonFile, "next_meetup_location_display", <<>>),
           DictGet(jsonFile, "next_meetup_location_url", <<>>)>>
    ELSE MeetupFields(dbMeetup.rec)

\* the dispatcher hands the next queued update to its handler
Dispatched == update_queue # <<>> /\ update_queue' = Tail(update_queue)

\* the update handled before this one stored a film suggestion
FilmJustStored ==
    last.cmd = "suggestfilm" /\ last.reply = "added" /\ last.saved = "ok"

\* the update handled before this one stored a meetup record
MeetupJustStored ==
    last.cmd = "setmeetup" /\ last.reply = "updated" /\ last.saved = "ok"

\* this update is the admin's removal of the film just stored
RemovesFilmJustStored ==
    /\ last'.cmd = "removefilm" /\ FromAdmin(last')
    /\ TextOf(last'.args) = TextOf(last.args)

\* this update wrote to the store
WroteStore ==
    /\ last'.saved = "ok"
    /\ \/ last'.cmd = "suggestfilm" /\ last'.reply = "added"
       \/ last'.cmd = "setmeetup" /\ last'.reply = "updated"

\* the later write overwrote the film or the record stored just before
LostUpdate ==
    \/ FilmJustStored /\ WroteStore /\ TextOf(last.args) \notin StoredFilms'
    \/ MeetupJustStored /\ WroteStore /\ last'.cmd # "setmeetup"
          /\ StoredMeetup' # last.payload

\* the removal did not see the film stored just before
MissedAppend ==
    /\ FilmJustStored /\ RemovesFilmJustStored /\ last'.loaded = "ok"
    /\ last'.reply = "not_in_list"

====
